---- MODULE Spec2Model ----
(***************************************************************************)
(* Model of the chunked stream replacer of src/src/replacer.rs             *)
(* (AhoCorasickReplacer): the per-byte replace loop, the potential-match   *)
(* buffer, the reusable output buffer and finish.                          *)
(*                                                                         *)
(* Bytes are u8 values (97 = 'a', ...).  An automaton state id is          *)
(* represented by the path label of its trie node, the start state by the  *)
(* empty label.  The automaton itself is not part of replacer.rs; it is    *)
(* modelled from its contract: a standard (non-leftmost) Aho-Corasick      *)
(* automaton with failure links.                                           *)
(***************************************************************************)
EXTENDS Integers, Sequences, FiniteSets, TLC

\* ------------------------------------------------------------------ bounds
\* Total number of bytes fed to one replacer.
MaxStream == 4
\* Number of replace calls made on one replacer.
MaxCalls == 3
\* Total number of bytes fed to the replacer of the deletion table.
MaxDeleteStream == 5
\* Bytes fed to, and calls made on, each of two replacers over one automaton.
MaxPairStream == 2
MaxPairCalls == 2

\* ------------------------------------------------------- generic helpers
Range(q) == {q[i] : i \in 1..Len(q)}

IsSuffix(p, q) ==
    /\ Len(p) <= Len(q)
    /\ SubSeq(q, Len(q) - Len(p) + 1, Len(q)) = p

IsPrefix(p, q) ==
    /\ Len(p) <= Len(q)
    /\ SubSeq(q, 1, Len(p)) = p

\* All byte strings over alphabet A of length at most n.
SeqsUpTo(A, n) == UNION {[1..k -> A] : k \in 0..n}

\* --------------------------------------------------- automaton (contract)
\* Nodes of the trie: every prefix of every pattern.
Trie(patterns) ==
    UNION {{SubSeq(patterns[i], 1, k) : k \in 0..Len(patterns[i])} :
           i \in 1..Len(patterns)}

\* Failure link: the longest proper suffix of the node that is itself a node.
Fail(a, s) ==
    LET cands == {k \in 2..(Len(s) + 1) : SubSeq(s, k, Len(s)) \in a.trie}
        first == CHOOSE k \in cands : \A j \in cands : k <= j
    IN  SubSeq(s, first, Len(s))

\* aut.start_state(Anchored::No): an error when the automaton was built for
\* anchored searches only, the (unanchored) start state otherwise.
start_state(a) ==
    IF a.start_kind = "Anchored"
    THEN [ok |-> FALSE, sid |-> <<>>]
    ELSE [ok |-> TRUE, sid |-> <<>>]

\* aut.next_state(Anchored::No, sid, byte): follow the goto edge, else the
\* failure links; the unanchored start state loops on every other byte.
RECURSIVE next_state(_, _, _)
next_state(a, s, byte) ==
    IF Append(s, byte) \in a.trie THEN Append(s, byte)
    ELSE IF s = <<>> THEN <<>>
    ELSE next_state(a, Fail(a, s), byte)

is_start(a, s) == s = <<>>

\* Ids (0-based) of the patterns that end at state s: the state's own pattern
\* and the patterns copied along the failure chain.
MatchesAt(a, s) ==
    {i \in 0..(Len(a.patterns) - 1) : IsSuffix(a.patterns[i + 1], s)}

is_match(a, s) == MatchesAt(a, s) # {}

\* aut.match_pattern(sid, 0): the first match recorded at the state, i.e. the
\* longest pattern ending there, the smallest id among equal patterns.
match_pattern(a, s) ==
    CHOOSE i \in MatchesAt(a, s) :
        \A j \in MatchesAt(a, s) :
            \/ Len(a.patterns[j + 1]) < Len(a.patterns[i + 1])
            \/ (Len(a.patterns[j + 1]) = Len(a.patterns[i + 1]) /\ i <= j)

pattern_len(a, pattern_id) == Len(a.patterns[pattern_id + 1])

\* ------------------------------------------------------------ the replacer
\* Vec::resize(new_len, value): truncate, or extend with value.
Resize(buf, new_len, value) ==
    [i \in 1..new_len |-> IF i <= Len(buf) THEN buf[i] ELSE value]

\* write_to_buffer(buf, idx, char): double the buffer when idx has reached its
\* length, then store the byte at idx.  buf[*idx] panics when idx is still
\* out of bounds after the resize.
write_to_buffer(buf, idx, char) ==
    LET grown == IF idx >= Len(buf) THEN Resize(buf, Len(buf) * 2, 0) ELSE buf
    IN  IF idx >= Len(grown)
        THEN [buf |-> grown, idx |-> idx, panicked |-> TRUE]
        ELSE [buf |-> [grown EXCEPT ![idx + 1] = char],
              idx |-> idx + 1, panicked |-> FALSE]

\* The state of one replace call.  Program state: sid, potential_buffer,
\* buffer, write_idx, and the two abnormal exits (panicked, err).  History
\* (not read by the program): pos counts the bytes fed so far; pending_pos,
\* verbatim_pos and absorbed_pos hold the stream positions of the bytes that
\* are in the potential buffer, were written verbatim, were cleared as the
\* span of a replacement; matches lists the pattern ids replaced so far;
\* trace describes the current call: estimate is chunk.len() +
\* potential_buffer.len() at entry, doublings counts the writes that took the
\* resize branch, in_bounds says that every write found idx <= buf.len() and
\* buf.len() >= 1, preserved that every write left the bytes below idx as
\* they were, direct_pos lists the stream positions written by the direct
\* write of the start-state branch, and events has one entry per match:
\* the pattern id, the write index and the potential buffer when the match
\* fired, and the potential buffer when it was cleared.
Write(st, char) ==
    LET w == write_to_buffer(st.buffer, st.write_idx, char)
    IN  [st EXCEPT
            !.buffer = w.buf, !.write_idx = w.idx, !.panicked = w.panicked,
            !.trace.doublings = @ + (IF st.write_idx >= Len(st.buffer) THEN 1 ELSE 0),
            !.trace.in_bounds = @ /\ st.write_idx <= Len(st.buffer) /\ Len(st.buffer) >= 1,
            !.trace.preserved = @ /\ SubSeq(w.buf, 1, st.write_idx)
                                       = SubSeq(st.buffer, 1, st.write_idx)]

\* write_to_buffer(.., potential_buffer.pop_front().unwrap())
PopWrite(st) ==
    LET w == Write(st, Head(st.potential_buffer))
    IN  [w EXCEPT !.potential_buffer = Tail(st.potential_buffer),
                  !.pending_pos = Tail(st.pending_pos),
                  !.verbatim_pos = Append(st.verbatim_pos, Head(st.pending_pos))]

\* A flush that forgets to write the pending bytes out.
FlushPotentialNone(st) == st

\* A flush that pops from the back of the deque.
RECURSIVE FlushPotentialLifo(_)
FlushPotentialLifo(st) ==
    IF st.panicked \/ Len(st.potential_buffer) = 0 THEN st
    ELSE LET n == Len(st.potential_buffer)
             w == Write(st, st.potential_buffer[n])
         IN  FlushPotentialLifo(
                 [w EXCEPT !.potential_buffer = SubSeq(st.potential_buffer, 1, n - 1),
                           !.pending_pos = SubSeq(st.pending_pos, 1, n - 1),
                           !.verbatim_pos = Append(st.verbatim_pos, st.pending_pos[n])])

\* while self.potential_buffer.len() > 0 { write_to_buffer(pop_front) }
RECURSIVE FlushPotential(_)
FlushPotential(st) ==
    IF st.panicked \/ Len(st.potential_buffer) = 0 THEN st
    ELSE FlushPotential(PopWrite(st))

\* A match branch without the truncation loop.
TruncateNone(st, len) == st

\* A truncation loop that stops one byte early.
RECURSIVE TruncateOffByOne(_, _)
TruncateOffByOne(st, len) ==
    IF st.panicked \/ ~(Len(st.potential_buffer) > len + 1) THEN st
    ELSE TruncateOffByOne(PopWrite(st), len)

\* A truncation loop that pops from the back of the deque.
RECURSIVE TruncateFromBack(_, _)
TruncateFromBack(st, len) ==
    IF st.panicked \/ ~(Len(st.potential_buffer) > len) THEN st
    ELSE LET n == Len(st.potential_buffer)
             w == Write(st, st.potential_buffer[n])
         IN  TruncateFromBack(
                 [w EXCEPT !.potential_buffer = SubSeq(st.potential_buffer, 1, n - 1),
                           !.pending_pos = SubSeq(st.pending_pos, 1, n - 1),
                           !.verbatim_pos = Append(st.verbatim_pos, st.pending_pos[n])],
                 len)

\* while self.potential_buffer.len() > pattern_len { write_to_buffer(pop_front) }
RECURSIVE Truncate(_, _)
Truncate(st, len) ==
    IF st.panicked \/ ~(Len(st.potential_buffer) > len) THEN st
    ELSE Truncate(PopWrite(st), len)

\* for replaced_byte in replacement.iter() { write_to_buffer(replaced_byte) }
RECURSIVE WriteReplacement(_, _, _)
WriteReplacement(st, replacement, i) ==
    IF st.panicked \/ i > Len(replacement) THEN st
    ELSE WriteReplacement(Write(st, replacement[i]), replacement, i + 1)

\* A match branch that leaves the automaton in the match state.
ReplaceMatchNoReset(a, rw, st) ==
    LET pattern_id == match_pattern(a, st.sid)
        len == pattern_len(a, pattern_id)
        truncated == Truncate(st, len)
        replacement == rw[pattern_id + 1]
        cleared == [truncated EXCEPT
                        !.potential_buffer = <<>>,
                        !.absorbed_pos = truncated.absorbed_pos \o truncated.pending_pos,
                        !.pending_pos = <<>>,
                        !.matches = Append(truncated.matches, pattern_id),
                        !.trace.events = Append(@,
                            [pattern_id |-> pattern_id,
                             at |-> st.write_idx,
                             pending |-> st.potential_buffer,
                             cleared |-> truncated.potential_buffer])]
    IN  IF truncated.panicked THEN truncated
        ELSE WriteReplacement(cleared, replacement, 1)

\* A match branch that, after the reset, feeds the last byte of the replacement
\* to the automaton.
ReplaceMatchRescans(a, rw, st) ==
    LET pattern_id == match_pattern(a, st.sid)
        len == pattern_len(a, pattern_id)
        truncated == Truncate(st, len)
        replacement == rw[pattern_id + 1]
        cleared == [truncated EXCEPT
                        !.potential_buffer = <<>>,
                        !.absorbed_pos = truncated.absorbed_pos \o truncated.pending_pos,
                        !.pending_pos = <<>>,
                        !.matches = Append(truncated.matches, pattern_id),
                        !.trace.events = Append(@,
                            [pattern_id |-> pattern_id,
                             at |-> st.write_idx,
                             pending |-> st.potential_buffer,
                             cleared |-> truncated.potential_buffer])]
        written == WriteReplacement(cleared, replacement, 1)
        start == start_state(a)
    IN  IF truncated.panicked THEN truncated
        ELSE IF written.panicked THEN written
        ELSE IF start.ok
             THEN [written EXCEPT
                      !.sid = IF replacement = <<>> THEN start.sid
                              ELSE next_state(a, start.sid,
                                              replacement[Len(replacement)])]
        ELSE [written EXCEPT !.err = TRUE]

\* The match branch of the loop body: truncate, clear, write the replacement,
\* reset the state (the `?` returns the automaton's error).
ReplaceMatch(a, rw, st) ==
    LET pattern_id == match_pattern(a, st.sid)
        len == pattern_len(a, pattern_id)
        truncated == Truncate(st, len)
        replacement == rw[pattern_id + 1]
        cleared == [truncated EXCEPT
                        !.potential_buffer = <<>>,
                        !.absorbed_pos = truncated.absorbed_pos \o truncated.pending_pos,
                        !.pending_pos = <<>>,
                        !.matches = Append(truncated.matches, pattern_id),
                        !.trace.events = Append(@,
                            [pattern_id |-> pattern_id,
                             at |-> st.write_idx,
                             pending |-> st.potential_buffer,
                             cleared |-> truncated.potential_buffer])]
        written == WriteReplacement(cleared, replacement, 1)
        start == start_state(a)
    IN  IF truncated.panicked THEN truncated
        ELSE IF written.panicked THEN written
        ELSE IF start.ok THEN [written EXCEPT !.sid = start.sid]
        ELSE [written EXCEPT !.err = TRUE]

\* A loop body that flushes on a transition into the start state but does not
\* write the byte that caused it.
ReplaceByteDropsDirect(a, rw, st, byte) ==
    LET moved == [st EXCEPT !.sid = next_state(a, st.sid, byte), !.pos = st.pos + 1]
    IN  IF is_start(a, moved.sid)
        THEN FlushPotential(moved)
        ELSE LET pushed == [moved EXCEPT
                                !.potential_buffer = Append(moved.potential_buffer, byte),
                                !.pending_pos = Append(moved.pending_pos, moved.pos)]
             IN  IF is_match(a, pushed.sid)
                 THEN ReplaceMatch(a, rw, pushed)
                 ELSE pushed

\* A loop body without the start-state branch: every byte is queued, and
\* only a match takes bytes out of the potential buffer.
ReplaceByteNoStartBranch(a, rw, st, byte) ==
    LET moved == [st EXCEPT !.sid = next_state(a, st.sid, byte), !.pos = st.pos + 1]
        pushed == [moved EXCEPT
                       !.potential_buffer = Append(moved.potential_buffer, byte),
                       !.pending_pos = Append(moved.pending_pos, moved.pos)]
    IN  IF is_match(a, pushed.sid)
        THEN ReplaceMatch(a, rw, pushed)
        ELSE pushed

\* The body of `for byte in chunk`.
ReplaceByte(a, rw, st, byte) ==
    LET moved == [st EXCEPT !.sid = next_state(a, st.sid, byte), !.pos = st.pos + 1]
    IN  IF is_start(a, moved.sid)
        THEN LET flushed == FlushPotential(moved)
                 direct == Write(flushed, byte)
             IN  IF flushed.panicked THEN flushed
                 ELSE [direct EXCEPT
                          !.verbatim_pos = Append(flushed.verbatim_pos, moved.pos),
                          !.trace.direct_pos = Append(@, moved.pos)]
        ELSE LET pushed == [moved EXCEPT
                                !.potential_buffer = Append(moved.potential_buffer, byte),
                                !.pending_pos = Append(moved.pending_pos, moved.pos)]
             IN  IF is_match(a, pushed.sid)
                 THEN ReplaceMatch(a, rw, pushed)
                 ELSE pushed

\* A loop that goes on with the next byte after the start-state error.
RECURSIVE ReplaceLoopIgnoresErr(_, _, _, _, _)
ReplaceLoopIgnoresErr(a, rw, st, chunk, i) ==
    IF st.panicked \/ i > Len(chunk) THEN st
    ELSE ReplaceLoopIgnoresErr(a, rw, ReplaceByte(a, rw, st, chunk[i]), chunk, i + 1)

\* for byte in chunk { ... }: stops at a panic or at the error return.
RECURSIVE ReplaceLoop(_, _, _, _, _)
ReplaceLoop(a, rw, st, chunk, i) ==
    IF st.panicked \/ st.err \/ i > Len(chunk) THEN st
    ELSE ReplaceLoop(a, rw, ReplaceByte(a, rw, st, chunk[i]), chunk, i + 1)

\* ------------------------------------------------------- pattern tables
\* Bytes: 'a' 97, 'b' 98, 'c' 99, 'd' 100, 'e' 101, 'f' 102, 'h' 104,
\* 'o' 111, 's' 115, 'x' 120, 'y' 121, 'Z' 90, '1' 49, '2' 50.  Each entry: the patterns the automaton was built
\* from, its start kind, the replacement table (one entry per pattern id) and
\* the environment: the bytes the input stream is drawn from and how many
\* of them are fed.
CfgAb ==
    [patterns |-> << <<97, 98>> >>, start_kind |-> "Unanchored",
     replace_with |-> << <<90>> >>, alphabet |-> {97, 98}, limit |-> MaxStream]
CfgHeShe ==
    [patterns |-> << <<104, 101>>, <<115, 104, 101>> >>, start_kind |-> "Both",
     replace_with |-> << <<49>>, <<50>> >>, alphabet |-> {115, 104, 101}, limit |-> MaxStream]
CfgHe ==
    [patterns |-> << <<104, 101>> >>, start_kind |-> "Unanchored",
     replace_with |-> << <<49>> >>, alphabet |-> {115, 104, 101}, limit |-> MaxStream]
CfgAbcd ==
    [patterns |-> << <<97, 98, 99, 100>> >>, start_kind |-> "Unanchored",
     replace_with |-> << <<90>> >>, alphabet |-> {97, 98, 99, 100}, limit |-> MaxStream]
\* Overlapping patterns, a deletion and replacements longer than their pattern.
CfgMixed ==
    [patterns |-> << <<97, 98, 97>>, <<98, 98>>, <<98, 97, 98, 99>> >>,
     start_kind |-> "Unanchored",
     replace_with |-> << <<>>, <<97, 98, 97, 98>>, <<99>> >>,
     alphabet |-> {97, 98, 99}, limit |-> MaxStream]
\* A pattern that is a prefix of another, and a pattern registered twice.
CfgPrefix ==
    [patterns |-> << <<97, 98>>, <<97>>, <<97, 98>> >>, start_kind |-> "Unanchored",
     replace_with |-> << <<49>>, <<97, 97>>, <<50>> >>, alphabet |-> {97, 98}, limit |-> MaxStream]
\* An automaton built for anchored searches only.
CfgAnchored ==
    [patterns |-> << <<97, 98>> >>, start_kind |-> "Anchored",
     replace_with |-> << <<90>> >>, alphabet |-> {97, 98}, limit |-> MaxStream]

\* A deletion: "foo" is replaced by nothing.
CfgFoo ==
    [patterns |-> << <<102, 111, 111>> >>, start_kind |-> "Unanchored",
     replace_with |-> << <<>> >>, alphabet |-> {102, 111, 120, 121},
     limit |-> MaxDeleteStream]
\* Replacements that contain, or end in, the start of a pattern.
CfgAA ==
    [patterns |-> << <<97>> >>, start_kind |-> "Unanchored",
     replace_with |-> << <<97, 97>> >>, alphabet |-> {97, 98}, limit |-> MaxStream]
CfgAbA ==
    [patterns |-> << <<97, 98>> >>, start_kind |-> "Unanchored",
     replace_with |-> << <<97>> >>, alphabet |-> {97, 98}, limit |-> MaxStream]

Configs == {CfgAb, CfgHeShe, CfgHe, CfgAbcd, CfgMixed, CfgPrefix, CfgAnchored}

\* ------------------------------------------------------------------ state
VARIABLES
    aut,               \* the shared automaton: [patterns, start_kind, trie]
    replace_with,      \* replacement table, indexed by pattern id
    alphabet,          \* bytes the stream is drawn from (environment)
    limit,             \* number of bytes the stream may reach (environment)
    sid,               \* current automaton state
    buffer,            \* output buffer (Vec<u8>)
    potential_buffer,  \* start of a potential match (VecDeque<u8>)
    call,              \* op: the last call; chunk: the chunk of the last replace
    result,            \* "Ok" or "Err": what the last call returned
    ret,               \* the slice the last call returned
    panicked,          \* a call died on an out-of-bounds index
    ncalls,            \* history: number of replace calls
    fed,               \* history: concatenation of the chunks fed
    out,               \* history: concatenation of the slices replace returned
    verbatim_pos,      \* history: stream positions written verbatim
    absorbed_pos,      \* history: stream positions cleared by a replacement
    pending_pos,       \* history: stream positions held in potential_buffer
    matches,           \* history: pattern ids of the replacements performed
    trace,             \* history: what the last replace call did
    pair               \* two more replacers over aut, each with the log of
                       \* its calls and of the slices they returned

vars == <<aut, replace_with, alphabet, limit, sid, buffer, potential_buffer, call,
          result, ret, panicked, ncalls, fed, out, verbatim_pos, absorbed_pos,
          pending_pos, matches, trace, pair>>

\* The trace of a call that has written nothing yet.
NoTrace(estimate) ==
    [estimate |-> estimate, doublings |-> 0, in_bounds |-> TRUE,
     preserved |-> TRUE, direct_pos |-> <<>>, events |-> <<>>]

\* AhoCorasickReplacer::new: the start state or the automaton's error, empty
\* buffers.
new(cfg) ==
    LET a == [patterns |-> cfg.patterns, start_kind |-> cfg.start_kind,
              trie |-> Trie(cfg.patterns)]
        start == start_state(a)
    IN  /\ aut = a
        /\ replace_with = cfg.replace_with
        /\ alphabet = cfg.alphabet
        /\ limit = cfg.limit
        /\ sid = start.sid
        /\ result = IF start.ok THEN "Ok" ELSE "Err"
        /\ buffer = <<>>
        /\ potential_buffer = <<>>
        /\ call = [op |-> "new", chunk |-> <<>>]
        /\ ret = <<>>
        /\ panicked = FALSE
        /\ ncalls = 0
        /\ fed = <<>>
        /\ out = <<>>
        /\ verbatim_pos = <<>>
        /\ absorbed_pos = <<>>
        /\ pending_pos = <<>>
        /\ matches = <<>>
        /\ trace = NoTrace(0)

Init == (\E cfg \in Configs : new(cfg)) /\ pair = <<>>

\* A replacer exists (new returned Ok) and no call has panicked.
Alive == ~panicked /\ ~(call.op = "new" /\ result = "Err")

\* The replacer as the variables hold it.
Self ==
    [sid |-> sid,
     potential_buffer |-> potential_buffer,
     buffer |-> buffer,
     write_idx |-> 0,
     panicked |-> panicked,
     err |-> FALSE,
     pos |-> Len(fed),
     pending_pos |-> pending_pos,
     verbatim_pos |-> verbatim_pos,
     absorbed_pos |-> absorbed_pos,
     matches |-> matches,
     trace |-> trace]

\* An entry that starts every call from the start state.
EntryResetsState(r, chunk) ==
    [r EXCEPT
        !.sid = <<>>,
        !.buffer = IF Len(r.buffer) < Len(chunk) + Len(r.potential_buffer)
                   THEN Resize(r.buffer, Len(chunk) + Len(r.potential_buffer), 0)
                   ELSE r.buffer,
        !.write_idx = 0,
        !.err = FALSE,
        !.trace = NoTrace(Len(chunk) + Len(r.potential_buffer))]

\* An entry that resizes the buffer to the estimate on every call.
EntryAlwaysResizes(r, chunk) ==
    [r EXCEPT
        !.buffer = Resize(r.buffer, Len(chunk) + Len(r.potential_buffer), 0),
        !.write_idx = 0,
        !.err = FALSE,
        !.trace = NoTrace(Len(chunk) + Len(r.potential_buffer))]

\* An entry whose resize counts the chunk but not the pending bytes.
EntryChunkOnly(r, chunk) ==
    [r EXCEPT
        !.buffer = IF Len(r.buffer) < Len(chunk)
                   THEN Resize(r.buffer, Len(chunk), 0)
                   ELSE r.buffer,
        !.write_idx = 0,
        !.err = FALSE,
        !.trace = NoTrace(Len(chunk) + Len(r.potential_buffer))]

\* An entry without the resize, leaving the growth to write_to_buffer.
EntryNoResize(r, chunk) ==
    [r EXCEPT
        !.write_idx = 0,
        !.err = FALSE,
        !.trace = NoTrace(Len(chunk) + Len(r.potential_buffer))]

\* The state a replace call on replacer r starts its loop in: the buffer
\* resized to chunk.len() + potential_buffer.len() when shorter, write_idx = 0.
Entry(r, chunk) ==
    [r EXCEPT
        !.buffer = IF Len(r.buffer) < Len(chunk) + Len(r.potential_buffer)
                   THEN Resize(r.buffer, Len(chunk) + Len(r.potential_buffer), 0)
                   ELSE r.buffer,
        !.write_idx = 0,
        !.err = FALSE,
        !.trace = NoTrace(Len(chunk) + Len(r.potential_buffer))]

\* A return that hands out the whole buffer when nothing was written and
\* nothing is pending.
ReturnedWholeWhenIdle(st) ==
    IF st.write_idx > 0 THEN SubSeq(st.buffer, 1, st.write_idx)
    ELSE IF Len(st.potential_buffer) > 0 THEN SubSeq(st.buffer, 1, 0)
    ELSE st.buffer

\* A returned slice that stops one byte short of write_idx.
ReturnedOffByOne(st) ==
    IF st.write_idx > 0 THEN SubSeq(st.buffer, 1, st.write_idx - 1)
    ELSE SubSeq(st.buffer, 1, 0)

\* The slice a replace call returns: buffer[..write_idx], or buffer[..0].
Returned(st) ==
    IF st.write_idx > 0 THEN SubSeq(st.buffer, 1, st.write_idx)
    ELSE IF Len(st.potential_buffer) > 0 THEN SubSeq(st.buffer, 1, 0)
    ELSE SubSeq(st.buffer, 1, 0)

\* AhoCorasickReplacer::replace(chunk)
Replace(chunk) ==
    /\ Alive
    /\ ncalls < MaxCalls
    /\ Len(fed) + Len(chunk) <= limit
    /\ \E st \in {ReplaceLoop(aut, replace_with, Entry(Self, chunk), chunk, 1)} :
           /\ sid' = st.sid
           /\ buffer' = st.buffer
           /\ potential_buffer' = st.potential_buffer
           /\ panicked' = st.panicked
           /\ result' = IF st.err THEN "Err" ELSE "Ok"
           /\ ret' = IF st.err \/ st.panicked THEN <<>> ELSE Returned(st)
           /\ out' = IF st.err \/ st.panicked THEN out ELSE out \o Returned(st)
           /\ pending_pos' = st.pending_pos
           /\ verbatim_pos' = st.verbatim_pos
           /\ absorbed_pos' = st.absorbed_pos
           /\ matches' = st.matches
           /\ trace' = st.trace
    /\ call' = [op |-> "replace", chunk |-> chunk]
    /\ ncalls' = ncalls + 1
    /\ fed' = fed \o chunk
    /\ UNCHANGED <<aut, replace_with, alphabet, limit, pair>>

\* A finish that reads the pending bytes out of the output buffer.
FinishSliceFromBuffer(pending, buf) ==
    SubSeq(buf, 1, Len(pending))

\* The slice finish returns: the potential buffer made contiguous, or
\* buffer[..0].  make_contiguous moves the deque's storage, not its contents.
FinishSlice(pending, buf) ==
    IF Len(pending) > 0 THEN pending ELSE SubSeq(buf, 1, 0)

\* A finish that drains: it empties the potential buffer and returns the
\* automaton to the start state.
FinishDrains ==
    /\ Alive
    /\ ret' = FinishSlice(potential_buffer, buffer)
    /\ result' = "Ok"
    /\ call' = [call EXCEPT !.op = "finish"]
    /\ potential_buffer' = <<>>
    /\ sid' = <<>>
    /\ pending_pos' = <<>>
    /\ verbatim_pos' = verbatim_pos \o pending_pos
    /\ UNCHANGED <<aut, replace_with, alphabet, limit, buffer, panicked, ncalls,
                   fed, out, absorbed_pos, matches, trace, pair>>

\* AhoCorasickReplacer::finish
Finish ==
    /\ Alive
    /\ ret' = FinishSlice(potential_buffer, buffer)
    /\ result' = "Ok"
    /\ call' = [call EXCEPT !.op = "finish"]
    /\ UNCHANGED <<aut, replace_with, alphabet, limit, sid, buffer, potential_buffer,
                   panicked, ncalls, fed, out, verbatim_pos, absorbed_pos,
                   pending_pos, matches, trace, pair>>

Next ==
    \/ \E chunk \in SeqsUpTo(alphabet, limit - Len(fed)) : Replace(chunk)
    \/ Finish

Spec == Init /\ [][Next]_vars

\* The replacers of the tables with a deletion.
InitDelete == (new(CfgFoo) \/ new(CfgMixed)) /\ pair = <<>>

SpecDelete == InitDelete /\ [][Next]_vars

\* The replacers of the tables whose replacements could match again.
InitRescan ==
    (\E cfg \in {CfgAA, CfgAbA, CfgPrefix, CfgMixed} : new(cfg)) /\ pair = <<>>

SpecRescan == InitRescan /\ [][Next]_vars

\* ----------------------------------------------------- reference and runs
\* A single left-to-right scan of a whole stream: seg holds the bytes read
\* since the last replacement; at a match state everything of seg before the
\* matched pattern is copied, the pattern is replaced, and the scan restarts
\* from the start state; what is left at the end is copied.
RECURSIVE RefScan(_, _, _, _, _, _, _)
RefScan(a, rw, stream, i, s, seg, acc) ==
    IF i > Len(stream) THEN acc \o seg
    ELSE LET s2 == next_state(a, s, stream[i])
             seg2 == Append(seg, stream[i])
         IN  IF is_match(a, s2)
             THEN LET pid == match_pattern(a, s2)
                      keep == Len(seg2) - pattern_len(a, pid)
                  IN  RefScan(a, rw, stream, i + 1, <<>>, <<>>,
                              acc \o SubSeq(seg2, 1, keep) \o rw[pid + 1])
             ELSE RefScan(a, rw, stream, i + 1, s2, seg2, acc)

Reference(stream) == RefScan(aut, replace_with, stream, 1, <<>>, <<>>, <<>>)

\* A freshly constructed replacer that has been fed nothing.
Fresh ==
    [sid |-> start_state(aut).sid, potential_buffer |-> <<>>, buffer |-> <<>>,
     write_idx |-> 0, panicked |-> FALSE, err |-> FALSE, pos |-> 0,
     pending_pos |-> <<>>, verbatim_pos |-> <<>>, absorbed_pos |-> <<>>,
     matches |-> <<>>, trace |-> NoTrace(0)]

\* The successive replace calls of one replacer on a sequence of chunks:
\* the replacer after the last call and the concatenation of the slices.
RECURSIVE Run(_, _, _)
Run(r, chunks, i) ==
    IF i > Len(chunks) THEN r
    ELSE LET st == ReplaceLoop(aut, replace_with, Entry(r.st, chunks[i]), chunks[i], 1)
         IN  Run([st |-> st, out |-> r.out \o Returned(st)], chunks, i + 1)

RunChunks(chunks) == Run([st |-> Fresh, out |-> <<>>], chunks, 1)

\* The stream cut into one chunk per byte.
ByteChunks(stream) == [i \in 1..Len(stream) |-> <<stream[i]>>]

\* The total output once finish has returned.
Total == out \o ret

\* ------------------------------------------- two replacers, one automaton
\* Two replacers built by new over the automaton aut, nothing called yet.
NewPair ==
    [i \in 1..2 |-> [r |-> Fresh, calls |-> <<>>, slices |-> <<>>]]

\* A call that works on the fields of the first replacer, whichever replacer
\* it was made on.
OwnedShared(p, i) == p[1].r

\* The replacer a call on replacer i of p reads and writes: &mut self, its own
\* state id, potential buffer and output buffer.
Owned(p, i) == p[i].r

\* replace(chunk) on replacer i of the pair.
PairReplace(i, chunk) ==
    /\ ~pair[i].r.panicked
    /\ Len(pair[i].calls) < MaxPairCalls
    /\ pair[i].r.pos + Len(chunk) <= MaxPairStream
    /\ \E st \in {ReplaceLoop(aut, replace_with, Entry(Owned(pair, i), chunk),
                              chunk, 1)} :
           pair' = [pair EXCEPT
                       ![i].r = st,
                       ![i].calls = Append(@, [op |-> "replace", chunk |-> chunk]),
                       ![i].slices = Append(@, IF st.panicked THEN <<>>
                                               ELSE Returned(st))]
    /\ UNCHANGED <<aut, replace_with, alphabet, limit, sid, buffer,
                   potential_buffer, call, result, ret, panicked, ncalls, fed,
                   out, verbatim_pos, absorbed_pos, pending_pos, matches, trace>>

\* finish() on replacer i of the pair.
PairFinish(i) ==
    /\ ~pair[i].r.panicked
    /\ Len(pair[i].calls) < MaxPairCalls
    /\ pair' = [pair EXCEPT
                   ![i].calls = Append(@, [op |-> "finish", chunk |-> <<>>]),
                   ![i].slices = Append(@, FinishSlice(Owned(pair, i).potential_buffer,
                                                       Owned(pair, i).buffer))]
    /\ UNCHANGED <<aut, replace_with, alphabet, limit, sid, buffer,
                   potential_buffer, call, result, ret, panicked, ncalls, fed,
                   out, verbatim_pos, absorbed_pos, pending_pos, matches, trace>>

InitPair == new(CfgAb) /\ pair = NewPair

NextPair ==
    \E i \in 1..2 :
        \/ \E chunk \in SeqsUpTo(alphabet, MaxPairStream) : PairReplace(i, chunk)
        \/ PairFinish(i)

SpecPair == InitPair /\ [][NextPair]_vars

\* One replacer making the calls of a log alone: the replacer after the last
\* call and the slices the calls returned.
RECURSIVE Solo(_, _, _)
Solo(s, calls, i) ==
    IF i > Len(calls) THEN s
    ELSE IF calls[i].op = "finish"
         THEN Solo([s EXCEPT !.slices = Append(@, FinishSlice(s.r.potential_buffer,
                                                              s.r.buffer))],
                   calls, i + 1)
         ELSE LET st == ReplaceLoop(aut, replace_with, Entry(s.r, calls[i].chunk),
                                    calls[i].chunk, 1)
              IN  Solo([r |-> st,
                        slices |-> Append(s.slices, IF st.panicked THEN <<>>
                                                    ELSE Returned(st))],
                       calls, i + 1)

SoloRun(calls) == Solo([r |-> Fresh, slices |-> <<>>], calls, 1)

\* ------------------------------------------------------------------ claims

\* C1: whatever the patterns, the replacement table, the stream and its cut
\* into chunks, the slices returned by the replace calls followed by the slice
\* returned by finish equal the reference scan of the whole stream, and no
\* call panics or fails on the way.
C1_OutputIsReferenceScan ==
    /\ ~panicked
    /\ call.op = "replace" => result = "Ok"
    /\ call.op = "finish" => Total = Reference(fed)

\* C1 witness: finish has returned a non-empty slice after several chunks in
\* which a replacement with truncation was performed.
C1_Witness ==
    /\ call.op = "finish"
    /\ ncalls >= 2
    /\ Len(matches) >= 1
    /\ Len(verbatim_pos) >= 1
    /\ ret # <<>>
    /\ aut.patterns = CfgMixed.patterns

\* C2: two cuts of the same stream give the same output and leave the same
\* automaton state and pending bytes: the replacer reached by any cut agrees
\* with the one fed the stream as a single chunk and with the one fed one
\* byte per chunk.
C2_ChunkBoundaryIndependence ==
    Alive =>
        LET whole == RunChunks(<<fed>>)
            bytes == RunChunks(ByteChunks(fed))
        IN  /\ out = whole.out
            /\ out = bytes.out
            /\ sid = whole.st.sid
            /\ sid = bytes.st.sid
            /\ potential_buffer = whole.st.potential_buffer
            /\ potential_buffer = bytes.st.potential_buffer
            /\ call.op = "finish" => Total = whole.out \o whole.st.potential_buffer

\* C2 witness: three calls have fed two bytes, so one chunk was empty, and
\* the last chunk is the single byte that completes a pattern begun in an
\* earlier chunk.
C2_Witness ==
    /\ call.op = "replace"
    /\ ncalls = 3
    /\ Len(fed) = 2
    /\ Len(call.chunk) = 1
    /\ absorbed_pos = <<1, 2>>
    /\ ret # <<>>

\* Sum of f[i] over the indices of a sequence.
RECURSIVE SumTo(_, _)
SumTo(f, n) == IF n = 0 THEN 0 ELSE f[n] + SumTo(f, n - 1)

\* Bytes of the patterns replaced so far, and bytes of their replacements.
MatchedLen == SumTo([i \in 1..Len(matches) |-> pattern_len(aut, matches[i])], Len(matches))
ReplacedLen == SumTo([i \in 1..Len(matches) |-> Len(replace_with[matches[i] + 1])], Len(matches))

\* C3: every byte fed is in exactly one of three groups: written verbatim
\* into a returned slice, absorbed as the span of a performed replacement, or
\* held in the pending buffer.  The groups partition the stream positions, the
\* pending group is what the pending buffer holds, the absorbed group is as
\* long as the patterns replaced, and the slices hold the verbatim bytes plus
\* the replacements and nothing else.
C3_Conservation ==
    Alive =>
        /\ Len(fed) = Len(verbatim_pos) + Len(absorbed_pos) + Len(pending_pos)
        /\ Range(verbatim_pos) \cup Range(absorbed_pos) \cup Range(pending_pos)
               = 1..Len(fed)
        /\ potential_buffer = [i \in 1..Len(pending_pos) |-> fed[pending_pos[i]]]
        /\ Len(absorbed_pos) = MatchedLen
        /\ Len(out) = Len(verbatim_pos) + ReplacedLen

\* C3 witness: all three groups are non-empty at once.
C3_Witness ==
    /\ call.op = "replace"
    /\ verbatim_pos # <<>>
    /\ absorbed_pos # <<>>
    /\ pending_pos # <<>>
    /\ ncalls >= 2

\* States the automaton can reach from state s.
RECURSIVE ReachableFrom(_)
ReachableFrom(S) ==
    LET N == S \cup {next_state(aut, x, b) : x \in S, b \in alphabet}
    IN  IF N = S THEN S ELSE ReachableFrom(N)

\* Length of the longest pattern reachable from the current state.
LongestReachable ==
    LET ids == UNION {MatchesAt(aut, x) : x \in ReachableFrom({sid})}
    IN  CHOOSE n \in {pattern_len(aut, i) : i \in ids} :
            \A i \in ids : pattern_len(aut, i) <= n

\* C4: the pending buffer is never longer than the longest pattern reachable
\* from the current automaton state.
C4_PendingWithinLongestPattern ==
    Alive => Len(potential_buffer) <= LongestReachable

\* C5: the pending buffer is empty whenever the current state is the start
\* state.  Every prefix of a chunk is itself a chunk the model feeds, so the
\* states between calls are also the states after each processed byte.
C5_PendingOnlyOffStart ==
    Alive => (is_start(aut, sid) => potential_buffer = <<>>)

\* C5 witness: a one-byte chunk moved the automaton into the start state and
\* flushed pending bytes ahead of the byte itself.
C5_Witness ==
    /\ call.op = "replace"
    /\ Len(call.chunk) = 1
    /\ matches = <<>>
    /\ Len(ret) >= 3
    /\ is_start(aut, sid)
    /\ potential_buffer = <<>>

\* C6: finish returns exactly the pending buffer, which is the unemitted tail
\* of the stream, and the empty slice when nothing is pending; an unfinished
\* candidate is not replaced ("abcd" -> "Z", chunk "ab": replace returns the
\* empty slice and finish returns "ab").
C6_FinishDrainsPending ==
    call.op = "finish" =>
        /\ result = "Ok"
        /\ ret = potential_buffer
        /\ IsSuffix(ret, fed)
        /\ (aut.patterns = CfgAbcd.patterns /\ fed = <<97, 98>>) =>
               (out = <<>> /\ ret = <<97, 98>>)

\* C6 witness: the "abcd" example, fed as the single chunk "ab".
C6_Witness ==
    /\ call = [op |-> "finish", chunk |-> <<97, 98>>]
    /\ aut.patterns = CfgAbcd.patterns
    /\ ncalls = 1
    /\ out = <<>>
    /\ ret = <<97, 98>>

\* C7: a replace call with an empty chunk returns the empty slice and leaves
\* the automaton state, the pending buffer and the output buffer's length as
\* they were.
C7_EmptyChunkNoChange ==
    [][(call'.op = "replace" /\ call'.chunk = <<>>) =>
           /\ ret' = <<>>
           /\ result' = "Ok"
           /\ ~panicked'
           /\ sid' = sid
           /\ potential_buffer' = potential_buffer
           /\ Len(buffer') = Len(buffer)]_vars

\* C7 witness: an empty chunk fed while a candidate is pending and the output
\* buffer is longer than the pending bytes.
C7_Witness ==
    /\ call = [op |-> "replace", chunk |-> <<>>]
    /\ ncalls >= 2
    /\ potential_buffer # <<>>
    /\ Len(buffer) > Len(potential_buffer)
    /\ ret = <<>>

\* C8: as long as no match state has been entered, the slices returned so far
\* are a prefix of the input, the pending buffer is the rest of it, each
\* returned slice is the piece that extends that prefix, and finish completes
\* the output to the input itself.
C8_NonMatchesPassThrough ==
    (Alive /\ matches = <<>>) =>
        /\ IsPrefix(out, fed)
        /\ out \o potential_buffer = fed
        /\ call.op = "replace" => IsSuffix(ret, out)
        /\ call.op = "finish" => Total = fed

\* C8 witness: a stream without a match, part of it delayed to a later call
\* and part of it returned by finish.
C8_Witness ==
    /\ call.op = "finish"
    /\ matches = <<>>
    /\ ncalls >= 2
    /\ Len(fed) >= 4
    /\ Len(out) >= 2
    /\ Len(ret) >= 2

\* The chunks ["a", "ab"] have been fed to the replacer of "ab" -> "Z" and
\* finish has returned.
C9_Case ==
    /\ aut.patterns = CfgAb.patterns
    /\ aut.start_kind = CfgAb.start_kind
    /\ replace_with = CfgAb.replace_with
    /\ ncalls = 2
    /\ fed = <<97, 97, 98>>
    /\ call = [op |-> "finish", chunk |-> <<97, 98>>]

\* C9 as stated: "ab" -> "Z" on the chunks ["a", "ab"] outputs "aZb".
C9_Original == C9_Case => Total = <<97, 90, 98>>

\* C9 amended: "ab" -> "Z" on the chunks ["a", "ab"] outputs "aZ": the first
\* 'a' passes through and "ab" is replaced; no 'b' is left to follow the 'Z'.
C9_GreedyExample == C9_Case => Total = <<97, 90>>

\* C9 witness: the example has run to its finish.
C9_Witness == C9_Case /\ out = <<97, 90>> /\ ret = <<>>

\* C10: on the stream "she", however it is cut, {"he" -> "1", "she" -> "2"}
\* outputs "2" and {"he" -> "1"} alone outputs "s1".
C10_SuffixLinkOutputs ==
    (call.op = "finish" /\ fed = <<115, 104, 101>>) =>
        /\ (aut.patterns = CfgHeShe.patterns /\ replace_with = CfgHeShe.replace_with)
               => Total = <<50>>
        /\ (aut.patterns = CfgHe.patterns /\ replace_with = CfgHe.replace_with)
               => Total = <<115, 49>>

\* C10 witness: "she" fed as one chunk to the replacer of both patterns.
C10_Witness ==
    /\ call = [op |-> "finish", chunk |-> <<115, 104, 101>>]
    /\ aut.patterns = CfgHeShe.patterns
    /\ ncalls = 1
    /\ Total = <<50>>

\* The matches of the last replace call, as recorded when they fired.
Events == {trace.events[i] : i \in 1..Len(trace.events)}

\* C15: when a match fires on a pattern of length L, the pending buffer, the
\* byte just appended included, holds at least L bytes; the bytes in excess of
\* L are written to the output, oldest first, right before the replacement;
\* and the L bytes left when the buffer is cleared are the matched pattern.
C15_TruncationStep ==
    Alive =>
        \A e \in Events :
            LET L == pattern_len(aut, e.pattern_id)
                n == Len(e.pending)
                replacement == replace_with[e.pattern_id + 1]
            IN  /\ n >= L
                /\ Len(e.cleared) = L
                /\ e.cleared = aut.patterns[e.pattern_id + 1]
                /\ IsSuffix(e.cleared, e.pending)
                /\ SubSeq(buffer, e.at + 1, e.at + (n - L) + Len(replacement))
                       = SubSeq(e.pending, 1, n - L) \o replacement

\* C15 witness: a match fired with two bytes more than its pattern pending,
\* and its replacement is not empty.
C15_Witness ==
    /\ call.op = "replace"
    /\ \E e \in Events :
           /\ Len(e.pending) >= pattern_len(aut, e.pattern_id) + 2
           /\ replace_with[e.pattern_id + 1] # <<>>

\* No replacement of the table is longer than the pattern it replaces.
NoLongerReplacement ==
    \A i \in 1..Len(replace_with) : Len(replace_with[i]) <= Len(aut.patterns[i])

\* The last replace call performed a replacement longer than its pattern.
LongerReplacementPerformed ==
    \E e \in Events :
        Len(replace_with[e.pattern_id + 1]) > pattern_len(aut, e.pattern_id)

\* C16: when no replacement is longer than its pattern, a replace call writes
\* at most chunk.len() + potential_buffer.len() (taken at entry) bytes and
\* never takes the doubling branch; the write index passes that estimate, or
\* the doubling branch is taken, only in a call that performs a replacement
\* longer than its pattern.
C16_CapacityEstimate ==
    (Alive /\ call.op = "replace") =>
        /\ NoLongerReplacement =>
               (Len(ret) <= trace.estimate /\ trace.doublings = 0)
        /\ Len(ret) > trace.estimate => LongerReplacementPerformed
        /\ trace.doublings > 0 => LongerReplacementPerformed

\* C16 witness: with no longer replacement in the table, a call that started
\* with bytes pending performed a replacement after a truncation.
C16_Witness ==
    /\ call.op = "replace"
    /\ NoLongerReplacement
    /\ trace.estimate > Len(call.chunk)
    /\ Len(ret) >= 2
    /\ \E e \in Events : Len(e.pending) > Len(e.cleared)

\* C17: every call of write_to_buffer finds the write index at most the
\* buffer length and the buffer length at least 1, so that one doubling puts
\* the index below the length: no write is out of bounds, the zero-capacity
\* doubling is never reached, and a doubling keeps the bytes already written.
C17_WritesInBounds ==
    /\ ~panicked
    /\ trace.in_bounds
    /\ trace.preserved
    /\ call.op = "replace" => Len(ret) <= Len(buffer)

\* C17 witness: a call took the doubling branch and returned more bytes than
\* its entry estimate.
C17_Witness ==
    /\ call.op = "replace"
    /\ trace.doublings >= 1
    /\ Len(ret) > trace.estimate
    /\ ~panicked

\* "she" has been fed as one chunk to the replacer of the only pattern
\* "he" -> "1", and that call is the last one.
C18_Case ==
    /\ aut.patterns = CfgHe.patterns
    /\ replace_with = CfgHe.replace_with
    /\ ncalls = 1
    /\ call = [op |-> "replace", chunk |-> <<115, 104, 101>>]

\* C18 as stated: when the match on 'e' fires the pending buffer holds "she",
\* and 's' is written by the truncation step, not by the direct write of the
\* start-state branch.
C18_Original ==
    C18_Case =>
        /\ Len(trace.events) = 1
        /\ trace.events[1].pending = <<115, 104, 101>>
        /\ trace.direct_pos = <<>>

\* C18 amended: 's' leaves the automaton in the start state and is written
\* by the direct write of the start-state branch; when the match on 'e' fires
\* the pending buffer holds "he", as long as the pattern, nothing is
\* truncated, and the call returns "s1".
C18_DirectWriteOfS ==
    C18_Case =>
        /\ Len(trace.events) = 1
        /\ trace.events[1].pending = <<104, 101>>
        /\ trace.events[1].cleared = <<104, 101>>
        /\ trace.events[1].at = 1
        /\ trace.direct_pos = <<1>>
        /\ ret = <<115, 49>>

\* C18 witness: the call has returned "s1".
C18_Witness == C18_Case /\ ret = <<115, 49>> /\ potential_buffer = <<>>

\* The automaton state after a stream, and the bytes read since the state
\* was last the start state or was last reset after a match; the scan reads
\* the automaton and the input only.
RECURSIVE SinceStart(_, _, _, _)
SinceStart(stream, i, s, seg) ==
    IF i > Len(stream) THEN [sid |-> s, seg |-> seg]
    ELSE LET s2 == next_state(aut, s, stream[i])
         IN  IF is_start(aut, s2) THEN SinceStart(stream, i + 1, s2, <<>>)
             ELSE IF is_match(aut, s2)
                  THEN SinceStart(stream, i + 1, start_state(aut).sid, <<>>)
                  ELSE SinceStart(stream, i + 1, s2, Append(seg, stream[i]))

\* C19: the pending buffer is the input read since the state was last the
\* start state or was last reset; the depth of the current state is at most
\* its length and its last depth-many bytes spell the path of the current
\* state; the state is the start state exactly when the buffer is empty.
\* (A state is represented by its path, so its depth is Len(sid); every
\* prefix of a chunk is a chunk, so these are the states after each byte.)
C19_PendingTracksState ==
    Alive =>
        /\ potential_buffer = SinceStart(fed, 1, <<>>, <<>>).seg
        /\ IsSuffix(potential_buffer, fed)
        /\ Len(sid) <= Len(potential_buffer)
        /\ IsSuffix(sid, potential_buffer)
        /\ is_start(aut, sid) <=> potential_buffer = <<>>

\* C19 witness: after a replacement, the automaton has followed a failure
\* link and is at a depth below the number of pending bytes.
C19_Witness ==
    /\ call.op = "replace"
    /\ matches # <<>>
    /\ Len(sid) >= 1
    /\ Len(potential_buffer) > Len(sid)

\* C20: finish leaves the automaton state, the potential buffer and the output
\* buffer as they were and returns the potential buffer; a finish that follows
\* a finish returns the same bytes; a replace that follows a finish starts
\* from the bytes finish returned as its pending bytes, so that each of them
\* is written, absorbed or still pending after it.
C20_FinishChangesNothing ==
    [][/\ call'.op = "finish" =>
              /\ sid' = sid
              /\ potential_buffer' = potential_buffer
              /\ buffer' = buffer
              /\ ret' = potential_buffer
              /\ result' = "Ok"
       /\ (call.op = "finish" /\ call'.op = "finish") => ret' = ret
       /\ (call.op = "finish" /\ call'.op = "replace") =>
              LET st == ReplaceLoop(aut, replace_with,
                                    Entry([Self EXCEPT !.potential_buffer = ret],
                                          call'.chunk),
                                    call'.chunk, 1)
              IN  /\ sid' = st.sid
                  /\ potential_buffer' = st.potential_buffer
                  /\ ret' = Returned(st)
                  /\ Range(pending_pos) \subseteq
                         (Range(verbatim_pos') \ Range(verbatim_pos))
                         \cup (Range(absorbed_pos') \ Range(absorbed_pos))
                         \cup Range(pending_pos')
      ]_vars

\* C20 witness: finish has returned pending bytes and the automaton is still
\* in the middle of a candidate.
C20_Witness ==
    /\ call.op = "finish"
    /\ ncalls >= 1
    /\ Len(ret) >= 2
    /\ ret = potential_buffer
    /\ ~is_start(aut, sid)

\* The replace loop run on the whole stream fed so far by a fresh replacer
\* whose automaton refuses the unanchored start state at every reset.
FailingReset ==
    ReplaceLoop([aut EXCEPT !.start_kind = "Anchored"], replace_with,
                Entry(Fresh, fed), fed, 1)

\* C14: new fails exactly when the automaton refuses the start state; finish
\* never fails; a replace call that completes no match never fails; a replace
\* call fails only at the reset that follows a match, and then it stops at
\* once: no byte after the match is read and no slice is returned.  An
\* automaton that gave new its start state gives it again at every reset, so
\* no replace call of a constructed replacer fails; the failing reset is
\* checked on the loop itself.
C14_ErrorsOnlyFromStartState ==
    /\ call.op = "new" => (result = "Err" <=> ~start_state(aut).ok)
    /\ call.op = "new" => (ret = <<>> /\ fed = <<>>)
    /\ call.op = "finish" => result = "Ok"
    /\ (call.op = "replace" /\ Events = {}) => result = "Ok"
    /\ (call.op = "replace" /\ result = "Err") =>
           (Events # {} /\ ~start_state(aut).ok /\ ret = <<>>)
    /\ LET st == FailingReset
           whole == RunChunks(<<fed>>).st
       IN  /\ st.err <=> whole.matches # <<>>
           /\ st.err =>
                  /\ Len(st.trace.events) = 1
                  /\ st.trace.events[1] = whole.trace.events[1]
                  /\ is_match(aut, st.sid)
                  /\ st.pos = whole.absorbed_pos[pattern_len(aut, whole.matches[1])]
           /\ ~st.err => st.pos = Len(fed)

\* C14 witness: new has returned the error of an automaton built for
\* anchored searches only.
C14_Witness ==
    /\ call.op = "new"
    /\ result = "Err"
    /\ aut.start_kind = "Anchored"
    /\ ~Alive

\* The last byte fed completed a match: it is the last absorbed byte.
LastByteMatched ==
    /\ absorbed_pos # <<>>
    /\ absorbed_pos[Len(absorbed_pos)] = Len(fed)

\* C12: replacement text is not rescanned: when the last byte fed completed a
\* match, the state is the start state and the pending buffer is empty; the
\* state after any fed stream is the state of a scan that reads the automaton
\* and the input only, restarting after each match, whatever the replacement
\* table holds; "a"->"aa" on "a" gives "aa" and "ab"->"a" on "abb" gives "ab".
C12_NoRescanning ==
    Alive =>
        /\ LastByteMatched => is_start(aut, sid) /\ potential_buffer = <<>>
        /\ sid = SinceStart(fed, 1, <<>>, <<>>).sid
        /\ (aut.patterns = CfgAA.patterns /\ replace_with = CfgAA.replace_with
            /\ fed = <<97>>)
              => /\ out = <<97, 97>>
                 /\ potential_buffer = <<>>
                 /\ matches = <<0>>
        /\ (aut.patterns = CfgAbA.patterns /\ replace_with = CfgAbA.replace_with
            /\ fed = <<97, 98, 98>> /\ call.op = "finish")
              => /\ Total = <<97, 98>>
                 /\ matches = <<0>>

\* C12 witness: "ab"->"a" has been fed "a", "b", "b" and finished: the
\* replacement "a" followed by "b" was not taken for a second match.
C12_Witness ==
    /\ aut.patterns = CfgAbA.patterns
    /\ replace_with = CfgAbA.replace_with
    /\ fed = <<97, 98, 98>>
    /\ ncalls = 3
    /\ call.op = "finish"
    /\ Total = <<97, 98>>

\* Every match of the last replace call had an empty replacement, and every
\* byte of its non-empty chunk was absorbed by a match.
ChunkAbsorbedByDeletions ==
    /\ call.op = "replace"
    /\ call.chunk # <<>>
    /\ \A p \in (Len(fed) - Len(call.chunk) + 1)..Len(fed) :
           p \in Range(absorbed_pos)
    /\ \A e \in Events : replace_with[e.pattern_id + 1] = <<>>

\* The bytes that were pending when the last replace call started were
\* absorbed by a match as well.
EntryPendingAbsorbed ==
    LET first == Len(fed) - Len(call.chunk)
        pending == trace.estimate - Len(call.chunk)
    IN  \A p \in (first - pending + 1)..first : p \in Range(absorbed_pos)

\* "foo" is deleted and the stream fed is "xfooy".
C11_Case ==
    /\ aut.patterns = CfgFoo.patterns
    /\ replace_with = CfgFoo.replace_with
    /\ fed = <<120, 102, 111, 111, 121>>

\* C11 as stated: a call whose chunk is entirely absorbed by matches with an
\* empty replacement returns an empty slice.
C11_Original ==
    (Alive /\ ChunkAbsorbedByDeletions) => ret = <<>>

\* C11: with "foo" deleted, "xfooy" gives "x" once the 'x' is fed and "xy" in
\* total over any chunking; a match with an empty replacement writes nothing
\* (the output is the verbatim bytes when every match was a deletion), and
\* leaves the pending buffer empty and the state at the start state; a call
\* whose chunk, together with the bytes pending at its start, is entirely
\* absorbed by such matches returns an empty slice.
C11_EmptyReplacement ==
    Alive =>
        /\ (C11_Case /\ call.op = "finish") => Total = <<120, 121>>
        /\ C11_Case => out \in {<<120>>, <<120, 121>>}
        /\ (\A i \in 1..Len(matches) : replace_with[matches[i] + 1] = <<>>)
              => out = [i \in 1..Len(verbatim_pos) |-> fed[verbatim_pos[i]]]
        /\ (LastByteMatched
            /\ replace_with[matches[Len(matches)] + 1] = <<>>)
              => /\ is_start(aut, sid)
                 /\ potential_buffer = <<>>
        /\ (ChunkAbsorbedByDeletions /\ EntryPendingAbsorbed) => ret = <<>>

\* C11 witness: "xfooy" was fed as "xf", "oo", "y" and finished; the call fed
\* "oo" was absorbed whole and returned nothing, and the total is "xy".
C11_Witness ==
    /\ C11_Case
    /\ ncalls = 3
    /\ call.op = "finish"
    /\ call.chunk = <<121>>
    /\ Total = <<120, 121>>
    /\ absorbed_pos = <<2, 3, 4>>

====
